---- MODULE Spec2Model ----
(***************************************************************************)
(* dash-emulator-quic: the BETA download governor (beta/beta.py), the      *)
(* segment scheduler (scheduler/scheduler.py), the ABR wrapper (abr.py)    *)
(* and the two download managers (downloader/tcp/__init__.py and           *)
(* downloader/quic/client.py), all running as cooperative tasks of one     *)
(* asyncio event loop.  One action is one stretch of a task between two    *)
(* suspension points.                                                      *)
(*                                                                         *)
(* Units: sizes and positions in KiB, bandwidth in Kibit/s, time in        *)
(* seconds, buffer levels in half seconds (so that safe_buffer_level =     *)
(* 7.5 s is the integer 15).  The sizes and bandwidths of the model are    *)
(* chosen so that (size - length) * 8 / bw is a whole number of seconds.   *)
(*                                                                         *)
(* The HTTP/3 event parser (downloader/quic/event_parser.py) and the       *)
(* protocol class (downloader/quic/protocol.py) are not among the source   *)
(* files; what the model says about them (the variable streams and the     *)
(* operators Quic...) follows the download manager contract of the         *)
(* specification, section 4.A.                                             *)
(***************************************************************************)
EXTENDS Integers, Sequences, FiniteSets, TLC

\* ---------------------------------------------------------------- bounds
NumSegments == 2      \* segments per representation (indices 0 .. NumSegments-1)
MaxQueue == 1         \* producers wait while the governor queue holds this many events
MaxChunks == 2        \* reads per response before the rest arrives at once
MaxDrops == 1         \* external drop_and_replace calls per run
LongSegments == 4     \* segments per representation of the longer manifest
MaxRefreshes == 2     \* manifest downloads of the refresh task per run
HealthySegments == 5  \* segments per representation of the undisturbed run
MaxCancels == 1       \* cancel_task calls per segment download

\* ------------------------------------------------------- program constants
PanicBufferLevel == 6     \* 3 s
SafeBufferLevel == 15     \* 7.5 s
MaxBufferDuration == 20   \* 10 s
FallbackTimeout == 10     \* except ZeroDivisionError: timeout_value = 10
MaxQuality == 6           \* if self._current_selections[0] > 6
NumPreviousSamples == 3
ReduceQL == 1
SlopeThreshold == <<33, 100>>  \* self.slope_threshold = 0.33
VQThreshold == <<8, 10>>  \* MockVQThresholdManager.get_threshold: 0.8
MinRefRatio == <<1, 10>>  \* MIN_REF_RATIO = 0.1

\* --------------------------------------------------------------- manifest
\* An adaptation set is the sequence of its representations in document
\* order; a representation has an id, a bandwidth and a number of segments.
Representation(id, b, n) == [id |-> id, bandwidth |-> b, segments |-> n]
\* one video adaptation set with one representation
VideoOnly == (0 :> <<Representation(0, 300, NumSegments)>>)
\* a video and an audio adaptation set
VideoAudio == (0 :> <<Representation(0, 300, NumSegments)>>)
                @@ (1 :> <<Representation(0, 50, NumSegments)>>)
\* one video adaptation set with two representations, the second the cheaper
VideoTwoReps == (0 :> <<Representation(0, 300, NumSegments), Representation(1, 100, NumSegments)>>)
\* two video representations and an audio adaptation set
VideoTwoRepsAudio == VideoTwoReps @@ (1 :> <<Representation(0, 50, NumSegments)>>)
\* one video adaptation set with two representations, the first the cheaper,
\* long enough for the slope logic of the scheduler to see its samples
VideoLadder == (0 :> <<Representation(0, 100, LongSegments), Representation(1, 300, LongSegments)>>)
\* the same ladder with one segment more than the slope logic needs samples
VideoHealthy == (0 :> <<Representation(0, 100, HealthySegments), Representation(1, 300, HealthySegments)>>)
SegmentDuration == 16     \* 8 s per segment, the same in every representation
InitSize == 1             \* initialization segments and audio segments: 1 KiB
SegmentSize == 10         \* video segments: 10 KiB
ChunkLengths == {1, 9}    \* a read returns at most 10 KiB (iter_chunked(10240))
BandwidthValues == {8}    \* non-zero estimates of the bandwidth meter: 8 Kibit/s
BufferLevels == {4, 10}   \* levels the player is seen to play the buffer down to
DrainedLevels == {10}     \* the level a steadily playing player is seen at
Instants == {10}          \* later readings of the wall clock, which starts at 0

\* None for object-valued fields; -1 stands for None in integer-valued fields
\* (_dropped_index, the cache of the ABR wrapper), "None" in the player state.
None == [none |-> TRUE]
InitUrl(a, r) == [kind |-> "init", as |-> a, rep |-> r, idx |-> -1]
SegmentUrl(a, r, i) == [kind |-> "seg", as |-> a, rep |-> r, idx |-> i]
\* None in _current_selections, a mapping of adaptation sets to representations:
\* the mapping without keys, which the scheduler never assigns
NoSelections == <<>>
MostSegments == IF HealthySegments > LongSegments THEN HealthySegments ELSE LongSegments
SegmentIndices == 0 .. (IF MostSegments > NumSegments THEN MostSegments ELSE NumSegments) - 1
Urls == {InitUrl(a, r) : a \in {0, 1}, r \in {0, 1}}
          \cup {SegmentUrl(a, r, i) : a \in {0, 1}, r \in {0, 1}, i \in SegmentIndices}
\* the CONTENT-LENGTH of the response
SizeOf(u) == IF u.kind = "seg" /\ u.as = 0 THEN SegmentSize ELSE InitSize

VARIABLES
  \* BETAManagerImpl
  event_queue, bw, gov_buffer_level, state, current_segment, pending_segment,
  timeout, max_timeout, dropped_urls, dropped_indices, gov_pc,
  \* BETASchedulerImpl
  adaptation_sets, sched_pc, index, dropped_index, end, representation_initialized,
  current_selections, qual_list, urls, loop_as, results, min_bitrate_representations,
  \* the download manager: TCPClientImpl or QuicClientImpl with its event parser
  protocol, download_queue, downloading_task, tasks, completed_urls,
  partially_accepted_urls, cancelled_urls, headers, content, waiting_urls, streams,
  \* collaborators: wall clock, buffer manager, player, bandwidth meter
  now, buffer_level, player_level, player_state, meter_bw,
  \* observation: the calls of the download manager made since the governor
  \* processed the last SegmentDownloadStart, the branch its last
  \* BytesTransferred event took, the events of the scheduler, and for each
  \* URL what its callers and listeners have seen of its current download
  next_id, calls, sched_events, drops_used, last_rule, life,
  \* BETAMPDProviderImpl: the position of start(), the parsed manifest _mpd,
  \* the refresh task _task, its own download manager, and the count of
  \* the manifest downloads requested and of those not yet parsed
  provider_pc, mpd, refresh_task, manifest_dm, fetches, in_flight

gov_vars == <<event_queue, bw, gov_buffer_level, state, current_segment, pending_segment,
              timeout, max_timeout, dropped_urls, dropped_indices, gov_pc>>
sched_vars == <<adaptation_sets, sched_pc, index, dropped_index, end, representation_initialized,
                current_selections, qual_list, urls, loop_as, results, min_bitrate_representations>>
dm_vars == <<protocol, download_queue, downloading_task, tasks, completed_urls,
             partially_accepted_urls, cancelled_urls, headers, content, waiting_urls, streams>>
env_vars == <<now, buffer_level, player_level, player_state, meter_bw>>
obs_vars == <<next_id, calls, sched_events, drops_used, last_rule, life>>
mpd_vars == <<provider_pc, mpd, refresh_task, manifest_dm, fetches, in_flight>>
vars == <<gov_vars, sched_vars, dm_vars, env_vars, obs_vars, mpd_vars>>

\* What callers and listeners have seen of the current download of a URL:
\* stopped, a call of stop or drop_url for it has returned; dropped, a call of
\* drop_url for it has returned that found it in no terminal state.
NoLife == [stopped |-> FALSE, dropped |-> FALSE]

\* ------------------------------------------------------------------ Init
\* BETAManagerImpl.__init__, BETASchedulerImpl.__init__, TCPClientImpl.__init__,
\* QuicClientImpl.__init__; manifest and proto are the configuration.
InitWith(manifest, proto) ==
  /\ adaptation_sets = manifest /\ protocol = proto
  /\ event_queue = <<>> /\ bw = 0 /\ gov_buffer_level = 0 /\ state = "None"
  /\ current_segment = None /\ pending_segment = None
  /\ timeout = -1 /\ max_timeout = -1
  /\ dropped_urls = {} /\ dropped_indices = {} /\ gov_pc = "idle"
  /\ sched_pc = "loop" /\ index = 0 /\ dropped_index = -1 /\ end = FALSE
  /\ representation_initialized = {} /\ current_selections = NoSelections
  /\ qual_list = <<>> /\ urls = <<>> /\ loop_as = 0 /\ results = <<>>
  /\ min_bitrate_representations = [a \in DOMAIN manifest |-> -1]
  /\ download_queue = <<>> /\ downloading_task = None
  /\ tasks = [u \in Urls |-> [st |-> "none", reads |-> 0]]
  /\ completed_urls = {} /\ partially_accepted_urls = {} /\ cancelled_urls = {}
  /\ headers = {} /\ content = [u \in Urls |-> -1]
  /\ waiting_urls = [u \in Urls |-> "absent"]
  /\ streams = [u \in Urls |-> "none"]
  /\ now = 0 /\ buffer_level = 0 /\ player_level = 0 /\ player_state = "None" /\ meter_bw = 0
  /\ next_id = 1 /\ calls = <<>> /\ sched_events = <<>> /\ drops_used = 0
  /\ last_rule = "none"
  /\ life = [u \in Urls |-> NoLife]
  /\ provider_pc = "idle" /\ mpd = None /\ refresh_task = "none"
  /\ manifest_dm = "open" /\ fetches = 0 /\ in_flight = 0

Init == InitWith(VideoOnly, "tcp")

\* ------------------------------------------------------------- events
BandwidthUpdateEvent(b) == [type |-> "BandwidthUpdate", bw |-> b]
BufferLevelChangeEvent(l) == [type |-> "BufferLevelChange", buffer_level |-> l]
StateChangeEvent(s) == [type |-> "StateChange", state |-> s]
SegmentDownloadStartEvent(i, sel) == [type |-> "SegmentDownloadStart", index |-> i, selections |-> sel]
SegmentDownloadCompleteEvent(i) == [type |-> "SegmentDownloadComplete", index |-> i]
TransferStartEvent(u) == [type |-> "TransferStart", url |-> u]
TransferEndEvent(sz, u) == [type |-> "TransferEnd", size |-> sz, url |-> u]
BytesTransferredEvent(l, u, p, sz) ==
  [type |-> "BytesTransferred", length |-> l, url |-> u, position |-> p, size |-> sz]
TransferCancelEvent(u, p, sz) == [type |-> "TransferCancel", url |-> u, position |-> p, size |-> sz]

\* SegmentRequest objects: id names the object, so that two fields holding
\* the same object (pending_segment = current_segment) carry the same id.
SegmentRequest(id, i, u) == [id |-> id, index |-> i, url |-> u, first_bytes_received |-> FALSE]

\* p/s > q and p/s < q for a ratio q = <<numerator, denominator>>
RatioGT(p, s, q) == p * q[2] > q[1] * s
RatioLT(p, s, q) == p * q[2] < q[1] * s

\* ------------------------------------------------------ TCPClientImpl.stop
\* Cancels the task _downloading_task refers to (whatever URL it serves),
\* marks url partially accepted, sets its waiter (KeyError when there is
\* none) and emits on_transfer_end(len(self._content), url).
TaskCancelled(t) ==
  IF t.st \in {"created", "streaming"} THEN [st |-> "cancelled", reads |-> 0] ELSE t
TcpStop(u) ==
  LET raised == u = None \/ waiting_urls[u] = "absent" IN
  [ tasks |-> IF downloading_task = None THEN tasks
              ELSE [tasks EXCEPT ![downloading_task] = TaskCancelled(@)],
    partially_accepted_urls |-> partially_accepted_urls \cup {u},
    waiting_urls |-> IF raised THEN waiting_urls ELSE [waiting_urls EXCEPT ![u] = "set"],
    streams |-> streams,
    raised |-> raised,
    emitted |-> IF raised THEN <<>>
                ELSE <<TransferEndEvent(Cardinality({v \in Urls : content[v] >= 0}), u)>> ]

\* ----------------------------------------------------- QuicClientImpl.stop
\* self._client is set by the first download
ClientUp == \E u \in Urls : streams[u] # "none"
\* if self._client is not None: close_stream_of_url(url), event_parser.close_stream(url):
\* an open stream becomes Stopped and keeps its prefix; anything else stays.
QuicStop(u) ==
  LET open == ClientUp /\ u # None /\ streams[u] = "open" IN
  [ tasks |-> IF open THEN [tasks EXCEPT ![u] = TaskCancelled(@)] ELSE tasks,
    partially_accepted_urls |-> partially_accepted_urls,
    waiting_urls |-> waiting_urls,
    streams |-> IF open THEN [streams EXCEPT ![u] = "stopped"] ELSE streams,
    raised |-> FALSE,
    emitted |-> IF open THEN <<TransferEndEvent(content[u], u)>> ELSE <<>> ]

\* QuicClientImpl.drop_url: close_stream_of_url(url), event_parser.drop_stream(url):
\* an open stream becomes Dropped and its waiter will observe None; a stream
\* in a terminal state stays as it is.
QuicDrop(u) ==
  [ tasks |-> IF ClientUp THEN [tasks EXCEPT ![u] = TaskCancelled(@)] ELSE tasks,
    partially_accepted_urls |-> partially_accepted_urls,
    waiting_urls |-> waiting_urls,
    streams |-> IF streams[u] = "open" THEN [streams EXCEPT ![u] = "dropped"] ELSE streams,
    raised |-> FALSE,
    emitted |-> <<>> ]

\* download_manager.stop(url) and download_manager.drop_url(url) of the
\* configured manager; TCPClientImpl.drop_url is stop.
Stop(u) == IF protocol = "tcp" THEN TcpStop(u) ELSE QuicStop(u)
DropUrl(u) == IF protocol = "tcp" THEN TcpStop(u) ELSE QuicDrop(u)

\* the download of the URL is in a terminal state: its response is complete
\* or it has been stopped or dropped
Settled(u) ==
  IF protocol = "tcp" THEN tasks[u].st \in {"done", "failed"} \/ u \in partially_accepted_urls
  ELSE streams[u] \in {"completed", "stopped", "dropped"}

\* ------------------------------------------------------- BETAManagerImpl
\* a call of the download manager: the operation, its URL, the SegmentRequest
\* object the governor held as current, and the event and rule that caused it
Call(op, u, seg, by, rule) == [op |-> op, url |-> u, seg |-> seg, by |-> by, rule |-> rule]

\* start(): the event pump.  Queue.get() does not suspend while the queue
\* holds events and _process does not suspend either, so once the task runs
\* it handles every queued event before any other task runs again.
GovHead(type) == gov_pc # "crashed" /\ event_queue # <<>> /\ Head(event_queue).type = type
Pumped(q) == IF q = <<>> THEN "idle" ELSE "run"
\* the event loop runs another task only while the pump is suspended
Yielded == gov_pc # "run"

\* _process: BandwidthUpdateEvent
process_bandwidth_update ==
  /\ GovHead("BandwidthUpdate")
  /\ bw' = Head(event_queue).bw
  /\ event_queue' = Tail(event_queue) /\ gov_pc' = Pumped(Tail(event_queue))
  /\ UNCHANGED <<gov_buffer_level, state, current_segment, pending_segment, timeout,
                 max_timeout, dropped_urls, dropped_indices>>
  /\ UNCHANGED <<sched_vars, dm_vars, mpd_vars, env_vars, obs_vars>>

\* _process: BufferLevelChangeEvent
process_buffer_level_change ==
  /\ GovHead("BufferLevelChange")
  /\ gov_buffer_level' = Head(event_queue).buffer_level
  /\ event_queue' = Tail(event_queue) /\ gov_pc' = Pumped(Tail(event_queue))
  /\ UNCHANGED <<bw, state, current_segment, pending_segment, timeout,
                 max_timeout, dropped_urls, dropped_indices>>
  /\ UNCHANGED <<sched_vars, dm_vars, mpd_vars, env_vars, obs_vars>>

\* _process: StateChangeEvent
process_state_change ==
  /\ GovHead("StateChange")
  /\ state' = Head(event_queue).state
  /\ event_queue' = Tail(event_queue) /\ gov_pc' = Pumped(Tail(event_queue))
  /\ UNCHANGED <<bw, gov_buffer_level, current_segment, pending_segment, timeout,
                 max_timeout, dropped_urls, dropped_indices>>
  /\ UNCHANGED <<sched_vars, dm_vars, mpd_vars, env_vars, obs_vars>>

\* _process: events no branch handles (TransferEnd, SegmentDownloadComplete)
process_other ==
  /\ gov_pc # "crashed" /\ event_queue # <<>>
  /\ Head(event_queue).type \in {"TransferEnd", "SegmentDownloadComplete"}
  /\ event_queue' = Tail(event_queue) /\ gov_pc' = Pumped(Tail(event_queue))
  /\ UNCHANGED <<bw, gov_buffer_level, state, current_segment, pending_segment, timeout,
                 max_timeout, dropped_urls, dropped_indices>>
  /\ UNCHANGED <<sched_vars, dm_vars, mpd_vars, env_vars, obs_vars>>

\* _segment_download_start: a new SegmentRequest object becomes current;
\* pending_segment keeps referring to the old object.
segment_download_start ==
  /\ GovHead("SegmentDownloadStart")
  /\ current_segment' = SegmentRequest(next_id, Head(event_queue).index, None)
  /\ next_id' = next_id + 1
  /\ event_queue' = Tail(event_queue) /\ gov_pc' = Pumped(Tail(event_queue))
  /\ calls' = <<>> /\ last_rule' = "none"
  /\ UNCHANGED <<bw, gov_buffer_level, state, pending_segment, timeout,
                 max_timeout, dropped_urls, dropped_indices>>
  /\ UNCHANGED <<sched_vars, dm_vars, mpd_vars, env_vars, sched_events, drops_used, life>>

\* _transfer_start: self._current_segment.url = event.url.  The write goes
\* to the object, so pending_segment sees it when it is the same object.
transfer_start ==
  /\ GovHead("TransferStart")
  /\ event_queue' = Tail(event_queue)
  /\ IF current_segment = None
       THEN gov_pc' = "crashed" /\ UNCHANGED <<current_segment, pending_segment>>
       ELSE /\ current_segment' = [current_segment EXCEPT !.url = Head(event_queue).url]
            /\ pending_segment' =
                 IF pending_segment # None /\ pending_segment.id = current_segment.id
                   THEN [pending_segment EXCEPT !.url = Head(event_queue).url]
                   ELSE pending_segment
            /\ gov_pc' = Pumped(Tail(event_queue))
  /\ UNCHANGED <<bw, gov_buffer_level, state, timeout, max_timeout, dropped_urls, dropped_indices>>
  /\ UNCHANGED <<sched_vars, dm_vars, mpd_vars, env_vars, obs_vars>>

\* timeout_value = (event.size - event.length) * 8 / self._bw, 10 on ZeroDivisionError
TimeoutValueNoLength(ev) == IF bw = 0 THEN FallbackTimeout ELSE (ev.size * 8) \div bw
TimeoutValue(ev) == IF bw = 0 THEN FallbackTimeout ELSE ((ev.size - ev.length) * 8) \div bw

\* The tests of _bytes_transferred, in the order of the code.
\* line 137 and line 141: the pending segment against the URL of the event
ForeignPending(ev) == pending_segment # None /\ ev.url # pending_segment.url
SamePending(ev) == pending_segment # None /\ pending_segment.url = ev.url
\* line 144
HealthyNever == FALSE
Healthy == gov_buffer_level > SafeBufferLevel
\* line 148 and line 151
DroppedUrl(ev) == ev.url \in dropped_urls
DroppedIndex == current_segment.index \in dropped_indices
\* line 154
FirstBytes == current_segment.first_bytes_received = FALSE
\* line 169
StallAnyIndex(ev) ==
  /\ ev.url = current_segment.url
  /\ state = "BUFFERING" /\ RatioGT(ev.position, ev.size, MinRefRatio)
Stall(ev) ==
  /\ current_segment.index # 0 /\ ev.url = current_segment.url
  /\ state = "BUFFERING" /\ RatioGT(ev.position, ev.size, MinRefRatio)
\* line 173
Panic(ev) == RatioGT(ev.position, ev.size, MinRefRatio) /\ gov_buffer_level < PanicBufferLevel
\* line 177
PreTimeoutInclusive == now <= timeout
PreTimeout == now < timeout
\* line 180
VQ(ev) == RatioGT(ev.position, ev.size, VQThreshold)
\* line 185
PanicAfterTimeout == gov_buffer_level < PanicBufferLevel
\* line 193
MaxTimeout(ev) == now > max_timeout /\ RatioLT(ev.position, ev.size, MinRefRatio)

\* The branch of _bytes_transferred an event takes, lines 137-199.
Decision(ev) ==
  IF SamePending(ev) THEN "pending"
  ELSE IF Healthy THEN "healthy"
  ELSE IF DroppedUrl(ev) THEN "dropped_url"
  ELSE IF current_segment = None THEN "raise"
  ELSE IF DroppedIndex THEN "dropped_index"
  ELSE IF FirstBytes THEN "first_bytes"
  ELSE IF Stall(ev) THEN "stall"
  ELSE IF Panic(ev) THEN "panic"
  ELSE IF PreTimeout THEN "pre_timeout"
  ELSE IF VQ(ev) THEN "vq"
  ELSE IF PanicAfterTimeout THEN "panic_timeout"
  ELSE IF MaxTimeout(ev) THEN "max_timeout"
  ELSE "default"

StopRules == {"stall", "panic", "vq", "panic_timeout", "max_timeout", "default"}

\* _bytes_transferred, with _stop_download inlined for the stop branches:
\* past the first test pending_segment is None, so _stop_download always
\* calls download_manager.stop(self._current_segment.url).
bytes_transferred ==
  /\ GovHead("BytesTransferred")
  /\ LET ev == Head(event_queue)
         rule == Decision(ev)
         cancelled == IF ForeignPending(ev)
                        THEN <<Call("cancel_read", pending_segment.url, pending_segment.id,
                                    ev.url, "reconcile")>>
                        ELSE <<>>
         stop == Stop(current_segment.url)
     IN
     /\ last_rule' = rule
     /\ IF rule \in StopRules
          THEN /\ tasks' = stop.tasks
               /\ partially_accepted_urls' = stop.partially_accepted_urls
               /\ waiting_urls' = stop.waiting_urls
               /\ streams' = stop.streams
               /\ event_queue' = Tail(event_queue) \o stop.emitted
               /\ gov_pc' = IF stop.raised THEN "crashed" ELSE Pumped(Tail(event_queue) \o stop.emitted)
               /\ pending_segment' = IF stop.raised THEN None ELSE current_segment
               /\ calls' = calls \o cancelled \o
                           <<Call("stop", current_segment.url, current_segment.id, ev.url, rule)>>
               /\ life' = IF stop.raised \/ current_segment.url = None THEN life
                          ELSE [life EXCEPT ![current_segment.url].stopped = TRUE]
          ELSE /\ UNCHANGED <<tasks, partially_accepted_urls, waiting_urls, streams>>
               /\ event_queue' = Tail(event_queue)
               /\ gov_pc' = IF rule = "raise" THEN "crashed" ELSE Pumped(Tail(event_queue))
               /\ pending_segment' = IF ForeignPending(ev) THEN None ELSE pending_segment
               /\ calls' = calls \o cancelled
               /\ UNCHANGED life
     /\ IF rule = "first_bytes"
          THEN /\ current_segment' = [current_segment EXCEPT !.first_bytes_received = TRUE]
               /\ timeout' = now + TimeoutValue(ev)
               /\ max_timeout' = now + TimeoutValue(ev) * 2
          ELSE UNCHANGED <<current_segment, timeout, max_timeout>>
  /\ UNCHANGED <<bw, gov_buffer_level, state, dropped_urls, dropped_indices>>
  /\ UNCHANGED <<mpd_vars, protocol, download_queue, downloading_task, completed_urls, cancelled_urls,
                 headers, content>>
  /\ UNCHANGED <<sched_vars, env_vars, next_id, sched_events, drops_used>>

\* drop_and_replace: a public operation of the governor that nothing in the
\* repository calls; the model lets a caller invoke it while a request with
\* a URL is current.
drop_and_replace ==
  /\ Yielded
  /\ drops_used < MaxDrops
  /\ current_segment # None /\ current_segment.url # None
  /\ LET u == current_segment.url
         drop == DropUrl(u)
     IN
     /\ dropped_urls' = dropped_urls \cup {u}
     /\ dropped_indices' = dropped_indices \cup {current_segment.index}
     /\ tasks' = drop.tasks
     /\ partially_accepted_urls' = drop.partially_accepted_urls
     /\ waiting_urls' = drop.waiting_urls
     /\ streams' = drop.streams
     /\ event_queue' = event_queue \o drop.emitted
     /\ calls' = calls \o <<Call("drop_url", u, current_segment.id, None, "external")>>
                       \o (IF drop.raised THEN <<>>
                           ELSE <<Call("cancel_read", u, current_segment.id, None, "external")>>)
     /\ life' = IF drop.raised THEN life
                ELSE [life EXCEPT ![u] = [stopped |-> TRUE, dropped |-> @.dropped \/ ~Settled(u)]]
  /\ drops_used' = drops_used + 1
  /\ UNCHANGED <<bw, gov_buffer_level, state, current_segment, pending_segment, timeout,
                 max_timeout, gov_pc>>
  /\ UNCHANGED <<mpd_vars, protocol, download_queue, downloading_task, completed_urls, cancelled_urls,
                 headers, content>>
  /\ UNCHANGED <<sched_vars, env_vars, next_id, sched_events, last_rule>>

\* ------------------------------------------- player, bandwidth meter, clock
\* PlayerEventListener.on_buffer_level_change: the player plays media out of
\* the buffer and reports the level.
buffer_level_change(levels) ==
  /\ Yielded
  /\ Len(event_queue) < MaxQueue
  /\ \E l \in levels \cup {buffer_level} :
       /\ l <= buffer_level /\ l # player_level
       /\ buffer_level' = l /\ player_level' = l
       /\ event_queue' = Append(event_queue, BufferLevelChangeEvent(l))
  /\ UNCHANGED <<bw, gov_buffer_level, state, current_segment, pending_segment, timeout,
                 max_timeout, dropped_urls, dropped_indices, gov_pc>>
  /\ UNCHANGED <<sched_vars, dm_vars, mpd_vars, now, player_state, meter_bw, obs_vars>>

on_buffer_level_change == buffer_level_change(BufferLevels)

\* PlayerEventListener.on_state_change
on_state_change ==
  /\ Yielded
  /\ Len(event_queue) < MaxQueue
  /\ \E s \in {"BUFFERING", "READY"} :
       /\ s # player_state
       /\ player_state' = s
       /\ event_queue' = Append(event_queue, StateChangeEvent(s))
  /\ UNCHANGED <<bw, gov_buffer_level, state, current_segment, pending_segment, timeout,
                 max_timeout, dropped_urls, dropped_indices, gov_pc>>
  /\ UNCHANGED <<sched_vars, dm_vars, mpd_vars, now, buffer_level, player_level, meter_bw, obs_vars>>

\* BandwidthUpdateListener.on_bandwidth_update
on_bandwidth_update ==
  /\ Yielded
  /\ Len(event_queue) < MaxQueue
  /\ \E b \in BandwidthValues :
       /\ b # meter_bw
       /\ meter_bw' = b
       /\ event_queue' = Append(event_queue, BandwidthUpdateEvent(b))
  /\ UNCHANGED <<bw, gov_buffer_level, state, current_segment, pending_segment, timeout,
                 max_timeout, dropped_urls, dropped_indices, gov_pc>>
  /\ UNCHANGED <<sched_vars, dm_vars, mpd_vars, now, buffer_level, player_level, player_state, obs_vars>>

\* datetime.datetime.now() is seen to have advanced.  The two reads of the
\* clock in lines 162-163 are modelled as the same instant.
Tick ==
  /\ Yielded
  /\ \E t \in Instants : t > now /\ now' = t
  /\ UNCHANGED <<gov_vars, sched_vars, dm_vars, mpd_vars, buffer_level, player_level, player_state,
                 meter_bw, obs_vars>>

\* ---------------------------------------------------- download managers
\* download(url) of the configured manager: TCPClientImpl creates a fresh
\* waiter and an empty buffer; QuicClientImpl opens a new stream; both call
\* on_transfer_start of the listeners and put the URL on the download queue.
\* w holds the waiters left by a preceding wait_complete.
Download(u, w) ==
  /\ waiting_urls' = IF protocol = "tcp" THEN [w EXCEPT ![u] = "unset"] ELSE w
  /\ streams' = IF protocol = "tcp" THEN streams ELSE [streams EXCEPT ![u] = "open"]
  /\ content' = [content EXCEPT ![u] = 0]
  /\ event_queue' = Append(event_queue, TransferStartEvent(u))
  /\ download_queue' = Append(download_queue, u)
  /\ life' = [life EXCEPT ![u] = NoLife]

\* event_parser.wait_complete(url): the stream is in a terminal state
Terminal(s) == s \in {"completed", "stopped", "dropped"}
QuicWaitEager(s) == IF s \in {"completed", "stopped"} THEN "data" ELSE "none"
QuicWait(s) == IF s = "dropped" THEN "none" ELSE IF Terminal(s) THEN "data" ELSE "block"

\* wait_complete(url) up to its first suspension: the value it returns at
\* once, or "block" when it has to wait; s is the stream state of the URL.
WaitCall(u, s) ==
  IF protocol = "quic" THEN QuicWait(s)
  ELSE IF u \in partially_accepted_urls THEN (IF u \in headers THEN "data" ELSE "raise")
  ELSE IF u \in cancelled_urls THEN "none"
  ELSE IF u \in completed_urls THEN "data"
  ELSE "block"

\* the blocked wait_complete(url) can go on
Woken(u) == IF protocol = "quic" THEN Terminal(streams[u]) ELSE waiting_urls[u] = "set"

\* wait_complete(url) from its wake-up to the return
WaitWake(u) ==
  IF protocol = "quic" THEN QuicWait(streams[u])
  ELSE IF u \in cancelled_urls THEN "none"
  ELSE IF u \in headers THEN "data" ELSE "raise"

\* the waiters after the wake-up: del self._waiting_urls[url]
Unwaited(u) == IF protocol = "tcp" THEN [waiting_urls EXCEPT ![u] = "absent"] ELSE waiting_urls
\* the completed URLs after wait_complete returned res past its wait
Uncompleted(u, res) ==
  IF protocol = "tcp" /\ res = "data" THEN completed_urls \ {u} ELSE completed_urls
\* the cancelled URLs after wait_complete returned res past its wait
Uncancelled(u, res) ==
  IF protocol = "tcp" /\ res = "none" THEN cancelled_urls \ {u} ELSE cancelled_urls

\* TCPClientImpl._download_task: takes the next URL of the queue and creates
\* the _download_inner task for it, without waiting for the previous task.
download_task ==
  /\ Yielded
  /\ protocol = "tcp" /\ download_queue # <<>>
  /\ LET u == Head(download_queue) IN
       /\ tasks' = [tasks EXCEPT ![u] = [st |-> "created", reads |-> 0]]
       /\ downloading_task' = u
  /\ download_queue' = Tail(download_queue)
  /\ UNCHANGED <<mpd_vars, protocol, completed_urls, partially_accepted_urls, cancelled_urls, headers,
                 content, waiting_urls, streams>>
  /\ UNCHANGED <<gov_vars, sched_vars, env_vars, obs_vars>>

\* TCPClientImpl._download_inner: the response headers arrive
download_inner_get(u) ==
  /\ Yielded
  /\ protocol = "tcp" /\ tasks[u].st = "created"
  /\ tasks' = [tasks EXCEPT ![u].st = "streaming"]
  /\ headers' = headers \cup {u}
  /\ UNCHANGED <<mpd_vars, protocol, download_queue, downloading_task, completed_urls,
                 partially_accepted_urls, cancelled_urls, content, waiting_urls, streams>>
  /\ UNCHANGED <<gov_vars, sched_vars, env_vars, obs_vars>>

\* one read of the response body, reported to the listeners by
\* on_bytes_transferred(len(chunk), url, position, size); reads counts the
\* reads of a body that is still incomplete
Chunk(u) ==
  /\ content[u] < SizeOf(u)
  /\ Len(event_queue) < MaxQueue
  /\ \E c \in ChunkLengths \cup {SizeOf(u) - content[u]} :
       LET rest == SizeOf(u) - content[u]
           l == IF c > rest \/ tasks[u].reads + 1 >= MaxChunks THEN rest ELSE c
       IN /\ content' = [content EXCEPT ![u] = @ + l]
          /\ event_queue' = Append(event_queue,
                                   BytesTransferredEvent(l, u, content[u] + l, SizeOf(u)))
  /\ tasks' = [tasks EXCEPT ![u].reads = IF content'[u] = SizeOf(u) THEN 0 ELSE @ + 1]
  /\ UNCHANGED <<mpd_vars, protocol, download_queue, downloading_task, completed_urls,
                 partially_accepted_urls, cancelled_urls, headers, waiting_urls, streams>>
  /\ UNCHANGED <<bw, gov_buffer_level, state, current_segment, pending_segment, timeout,
                 max_timeout, dropped_urls, dropped_indices, gov_pc>>
  /\ UNCHANGED <<sched_vars, env_vars, obs_vars>>

\* TCPClientImpl._download_inner: one chunk of iter_chunked
download_inner_chunk(u) ==
  /\ Yielded
  /\ protocol = "tcp" /\ tasks[u].st = "streaming"
  /\ Chunk(u)

\* TCPClientImpl._download_inner: the response is complete; KeyError ends
\* the task when the waiter of the URL has been deleted meanwhile.
download_inner_end(u) ==
  /\ Yielded
  /\ protocol = "tcp" /\ tasks[u].st = "streaming" /\ content[u] = SizeOf(u)
  /\ Len(event_queue) < MaxQueue
  /\ completed_urls' = completed_urls \cup {u}
  /\ IF waiting_urls[u] = "absent"
       THEN /\ tasks' = [tasks EXCEPT ![u].st = "failed"]
            /\ UNCHANGED life
            /\ UNCHANGED <<waiting_urls, event_queue>>
       ELSE /\ tasks' = [tasks EXCEPT ![u].st = "done"]
            /\ waiting_urls' = [waiting_urls EXCEPT ![u] = "set"]
            /\ event_queue' = Append(event_queue, TransferEndEvent(content[u], u))
            /\ UNCHANGED life
  /\ UNCHANGED <<mpd_vars, protocol, download_queue, downloading_task, partially_accepted_urls,
                 cancelled_urls, headers, content, streams>>
  /\ UNCHANGED <<bw, gov_buffer_level, state, current_segment, pending_segment, timeout,
                 max_timeout, dropped_urls, dropped_indices, gov_pc>>
  /\ UNCHANGED <<sched_vars, env_vars, next_id, calls, sched_events, drops_used, last_rule>>

\* TCPClientImpl._download_inner: session.get or a read of the body raises
\* (aiohttp.ClientError, a connection-level error).  Nothing in the task
\* catches it: the task ends with the exception, no listener is called and
\* the waiter of the URL is left as it is.
connection_error(u) ==
  /\ Yielded
  /\ protocol = "tcp" /\ tasks[u].st \in {"created", "streaming"}
  /\ tasks' = [tasks EXCEPT ![u] = [st |-> "error", reads |-> 0]]
  /\ UNCHANGED <<mpd_vars, protocol, download_queue, downloading_task, completed_urls,
                 partially_accepted_urls, cancelled_urls, headers, content, waiting_urls, streams>>
  /\ UNCHANGED <<gov_vars, sched_vars, env_vars, obs_vars>>

\* QuicClientImpl._download_loop, read_new_request: takes the next URL of
\* the queue and creates the task that drains its events.
read_new_request ==
  /\ Yielded
  /\ protocol = "quic" /\ download_queue # <<>>
  /\ LET u == Head(download_queue) IN
       tasks' = [tasks EXCEPT ![u] = [st |-> IF streams[u] = "open" THEN "streaming"
                                             ELSE "cancelled", reads |-> 0]]
  /\ download_queue' = Tail(download_queue)
  /\ UNCHANGED <<mpd_vars, protocol, downloading_task, completed_urls, partially_accepted_urls,
                 cancelled_urls, headers, content, waiting_urls, streams>>
  /\ UNCHANGED <<gov_vars, sched_vars, env_vars, obs_vars>>

\* QuicClientImpl._download_loop: event_parser.parse(url, event) for a data
\* event of an open stream
download_loop_data(u) ==
  /\ Yielded
  /\ protocol = "quic" /\ tasks[u].st = "streaming" /\ streams[u] = "open"
  /\ Chunk(u)

\* QuicClientImpl._download_loop: event_parser.parse(url, event) for the
\* event that ends the stream
download_loop_end(u) ==
  /\ Yielded
  /\ protocol = "quic" /\ tasks[u].st = "streaming" /\ streams[u] = "open"
  /\ content[u] = SizeOf(u)
  /\ Len(event_queue) < MaxQueue
  /\ tasks' = [tasks EXCEPT ![u].st = "done"]
  /\ streams' = [streams EXCEPT ![u] = "completed"]
  /\ event_queue' = Append(event_queue, TransferEndEvent(content[u], u))
  /\ UNCHANGED life
  /\ UNCHANGED <<mpd_vars, protocol, download_queue, downloading_task, completed_urls,
                 partially_accepted_urls, cancelled_urls, headers, content, waiting_urls>>
  /\ UNCHANGED <<bw, gov_buffer_level, state, current_segment, pending_segment, timeout,
                 max_timeout, dropped_urls, dropped_indices, gov_pc>>
  /\ UNCHANGED <<sched_vars, env_vars, next_id, calls, sched_events, drops_used, last_rule>>

\* ------------------------------------------------------ BetaABRController
RepresentationIds(a) == {adaptation_sets[a][k].id : k \in 1 .. Len(adaptation_sets[a])}
\* adaptation_set.representations.get(selection)
RepresentationOf(a, r) ==
  CHOOSE rep \in {adaptation_sets[a][k] : k \in 1 .. Len(adaptation_sets[a])} : rep.id = r

RECURSIVE LowestScan(_, _, _, _)
\* the for loop of _find_representation_id_of_lowest_bitrate over reps[k..]
LowestScan(reps, k, min_id, min_bandwidth) ==
  IF k > Len(reps) THEN min_id
  ELSE IF min_id = -1 \/ reps[k].bandwidth < min_bandwidth
         THEN LowestScan(reps, k + 1, reps[k].id, reps[k].bandwidth)
         ELSE LowestScan(reps, k + 1, min_id, min_bandwidth)

\* _find_representation_id_of_lowest_bitrate, cache first
find_representation_id_of_lowest_bitrate(a) ==
  IF min_bitrate_representations[a] # -1 THEN min_bitrate_representations[a]
  ELSE LowestScan(adaptation_sets[a], 1, -1, 0)

\* update_selection: the results it may return.  The wrapped
\* DashABRController is a collaborator: any representation of each set.
update_selection(choose_lowest) ==
  IF choose_lowest
    THEN {[a \in DOMAIN adaptation_sets |-> find_representation_id_of_lowest_bitrate(a)]}
    ELSE {sel \in [DOMAIN adaptation_sets -> {0, 1}] :
            \A a \in DOMAIN adaptation_sets : sel[a] \in RepresentationIds(a)}

\* BETASchedulerImpl.update: a refreshed manifest replaces the adaptation sets
update(m) ==
  /\ adaptation_sets' = m
  /\ UNCHANGED <<sched_pc, index, dropped_index, end, representation_initialized,
                 current_selections, qual_list, urls, loop_as, results,
                 min_bitrate_representations>>
  /\ UNCHANGED <<gov_vars, dm_vars, mpd_vars, env_vars, obs_vars>>

\* BetaABRController.update_selection(adaptation_sets, choose_lowest) called
\* on its own, the result kept in current_selections
update_selection_call(choose_lowest) ==
  /\ \E selections \in update_selection(choose_lowest) :
       /\ current_selections' = selections
       /\ min_bitrate_representations' =
            IF choose_lowest THEN [a \in DOMAIN adaptation_sets |-> selections[a]]
                             ELSE min_bitrate_representations
  /\ UNCHANGED <<adaptation_sets, sched_pc, index, dropped_index, end,
                 representation_initialized, qual_list, urls, loop_as, results>>
  /\ UNCHANGED <<gov_vars, dm_vars, mpd_vars, env_vars, obs_vars>>

\* the manifests of a video and an audio adaptation set with one or two
\* representations each
Ladders ==
  {<<Representation(0, b, NumSegments)>> : b \in {100, 300}}
    \cup {<<Representation(0, b, NumSegments), Representation(1, c, NumSegments)>> :
            b \in {100, 300}, c \in {100, 300}}
Manifests == [{0, 1} -> Ladders]

\* the ABR wrapper under any sequence of manifest updates and selections
NextAbr ==
  \/ \E m \in Manifests : update(m)
  \/ update_selection_call(TRUE)
  \/ update_selection_call(FALSE)

SpecAbr == (\E m \in Manifests : InitWith(m, "tcp")) /\ [][NextAbr]_vars

\* ---------------------------------------------------- BETAMPDProviderImpl
\* the parsed manifest: its type and its adaptation sets
MPD(t, m) == [type |-> t, adaptation_sets |-> m]
MPDTypes == {"static", "dynamic"}

\* line 59: self._mpd.type == "dynamic"
DynamicAlways(t) == TRUE
Dynamic(t) == t = "dynamic"

\* the refresh task can go on to its next update(): it has just been created
\* or its sleep is over, the update() before having been awaited to its end
RunnableAlways == {"created", "sleep", "update"}
Runnable == {"created", "sleep"}

\* start, lines 57-58: update() up to its wait_complete(self.mpd_url)
provider_start ==
  /\ provider_pc = "idle"
  /\ provider_pc' = "update"
  /\ fetches' = fetches + 1 /\ in_flight' = in_flight + 1
  /\ UNCHANGED <<mpd, refresh_task, manifest_dm>>
  /\ UNCHANGED <<gov_vars, sched_vars, dm_vars, env_vars, obs_vars>>

\* start, lines 42-49 and 59-62: the manifest has arrived and is parsed; a
\* dynamic manifest gets the refresh task, a static one the task that closes
\* the download manager
provider_start_parsed ==
  /\ provider_pc = "update"
  /\ \E t \in MPDTypes, m \in Manifests :
       /\ mpd' = MPD(t, m)
       /\ refresh_task' = IF Dynamic(t) THEN "created" ELSE refresh_task
       /\ manifest_dm' = IF Dynamic(t) THEN manifest_dm ELSE "closing"
  /\ provider_pc' = "started"
  /\ in_flight' = in_flight - 1
  /\ UNCHANGED fetches
  /\ UNCHANGED <<gov_vars, sched_vars, dm_vars, env_vars, obs_vars>>

\* update_repeatedly, line 53: the next update() up to its wait_complete
update_repeatedly ==
  /\ refresh_task \in Runnable
  /\ fetches < 1 + MaxRefreshes
  /\ refresh_task' = "update"
  /\ fetches' = fetches + 1 /\ in_flight' = in_flight + 1
  /\ UNCHANGED <<provider_pc, mpd, manifest_dm>>
  /\ UNCHANGED <<gov_vars, sched_vars, dm_vars, env_vars, obs_vars>>

\* update_repeatedly, lines 42-49 and 54: the manifest has arrived and is
\* parsed, the task sleeps update_interval
update_repeatedly_parsed ==
  /\ refresh_task = "update"
  /\ \E t \in MPDTypes, m \in Manifests : mpd' = MPD(t, m)
  /\ refresh_task' = "sleep"
  /\ in_flight' = in_flight - 1
  /\ UNCHANGED <<provider_pc, manifest_dm, fetches>>
  /\ UNCHANGED <<gov_vars, sched_vars, dm_vars, env_vars, obs_vars>>

\* the task of line 62 runs: download_manager.close()
provider_close ==
  /\ manifest_dm = "closing"
  /\ manifest_dm' = "closed"
  /\ UNCHANGED <<provider_pc, mpd, refresh_task, fetches, in_flight>>
  /\ UNCHANGED <<gov_vars, sched_vars, dm_vars, env_vars, obs_vars>>

\* stop, lines 64-67: the refresh task is cancelled, with the update() it
\* may be in, and the download manager is closed
provider_stop ==
  /\ provider_pc = "started"
  /\ provider_pc' = "stopped"
  /\ refresh_task' = IF refresh_task = "none" THEN "none" ELSE "cancelled"
  /\ in_flight' = IF refresh_task = "update" THEN in_flight - 1 ELSE in_flight
  /\ manifest_dm' = "closed"
  /\ UNCHANGED <<mpd, fetches>>
  /\ UNCHANGED <<gov_vars, sched_vars, dm_vars, env_vars, obs_vars>>

\* the MPD provider from start() to stop()
NextMpd ==
  \/ provider_start \/ provider_start_parsed
  \/ update_repeatedly \/ update_repeatedly_parsed
  \/ provider_close \/ provider_stop

SpecMpd == Init /\ [][NextMpd]_vars

\* ------------------------------------------------------ BETASchedulerImpl
RECURSIVE SumSeq(_)
SumSeq(q) == IF q = <<>> THEN 0 ELSE Head(q) + SumSeq(Tail(q))

\* slope of stats.linregress(np.arange(len(q)), q) as <<numerator, denominator>>
Slope(q) ==
  LET n == Len(q)
      xs == [k \in 1 .. n |-> k - 1]
  IN <<n * SumSeq([k \in 1 .. n |-> xs[k] * q[k]]) - SumSeq(xs) * SumSeq(q),
       n * SumSeq([k \in 1 .. n |-> xs[k] * xs[k]]) - SumSeq(xs) * SumSeq(xs)>>

\* slope_estimator: the value added to the selection of adaptation set 0
slope_estimator(q, slope_threshold, reduce_QL) ==
  IF Slope(q)[1] * slope_threshold[2] > slope_threshold[1] * Slope(q)[2] THEN reduce_QL ELSE 0

LastSamples(q, n) == SubSeq(q, Len(q) - n + 1, Len(q))

\* lines 130-146: the selection after the slope logic
AfterLogic(sel) ==
  IF Len(qual_list) > NumPreviousSamples
    THEN LET red_value == slope_estimator(LastSamples(qual_list, NumPreviousSamples),
                                          SlopeThreshold, ReduceQL)
             q == sel[0] + red_value
         IN [sel EXCEPT ![0] = IF q > MaxQuality THEN MaxQuality ELSE q]
    ELSE sel

\* an event of the scheduler as its listeners see it; lowest tells whether
\* the selection of a start event was made with choose_lowest=True
SchedEvent(type, i, sel, lowest) == [type |-> type, index |-> i, selections |-> sel, lowest |-> lowest]

\* line 109: if self.buffer_manager.buffer_level > self.max_buffer_duration
BufferFullNever == FALSE
BufferFull == buffer_level > MaxBufferDuration

\* the start event of an index: abr is the selection update_selection
\* returned, selections what the loop announces after its slope logic
SchedStart(i, abr, lowest) ==
  [type |-> "start", index |-> i, selections |-> AfterLogic(abr), lowest |-> lowest, abr |-> abr]

\* loop, lines 109-111: buffer above the high-water mark, sleep update_interval
loop_sleep ==
  /\ Yielded
  /\ sched_pc = "loop" /\ BufferFull
  /\ sched_pc' = "sleep"
  /\ UNCHANGED <<adaptation_sets, index, dropped_index, end, representation_initialized,
                 current_selections, qual_list, urls, loop_as, results,
                 min_bitrate_representations>>
  /\ UNCHANGED <<gov_vars, dm_vars, mpd_vars, env_vars, obs_vars>>

\* loop: asyncio.sleep returns, continue
loop_wake ==
  /\ Yielded
  /\ sched_pc = "sleep"
  /\ sched_pc' = "loop"
  /\ UNCHANGED <<adaptation_sets, index, dropped_index, end, representation_initialized,
                 current_selections, qual_list, urls, loop_as, results,
                 min_bitrate_representations>>
  /\ UNCHANGED <<gov_vars, dm_vars, mpd_vars, env_vars, obs_vars>>

\* line 117: if self._index == self._dropped_index
ChooseLowestNever == FALSE
ChooseLowest == index = dropped_index

\* loop, lines 117-161: select, apply the slope logic, announce the segment
loop_select ==
  /\ Yielded
  /\ sched_pc = "loop" /\ ~BufferFull
  /\ Len(event_queue) < MaxQueue
  /\ LET lowest == ChooseLowest IN
     \E selections \in update_selection(lowest) :
       /\ min_bitrate_representations' =
            IF lowest THEN [a \in DOMAIN adaptation_sets |-> selections[a]]
                      ELSE min_bitrate_representations
       /\ current_selections' = AfterLogic(selections)
       /\ qual_list' = Append(qual_list, AfterLogic(selections)[0])
       /\ event_queue' = Append(event_queue,
                                SegmentDownloadStartEvent(index, AfterLogic(selections)))
       /\ sched_events' = Append(sched_events, SchedStart(index, selections, lowest))
  /\ urls' = <<>> /\ results' = <<>> /\ loop_as' = 0 /\ sched_pc' = "for"
  /\ UNCHANGED <<adaptation_sets, index, dropped_index, end, representation_initialized>>
  /\ UNCHANGED <<bw, gov_buffer_level, state, current_segment, pending_segment, timeout,
                 max_timeout, dropped_urls, dropped_indices, gov_pc>>
  /\ UNCHANGED <<dm_vars, mpd_vars, env_vars, next_id, calls, drops_used, last_rule, life>>

LastAdaptationSet == CHOOSE a \in DOMAIN adaptation_sets : \A b \in DOMAIN adaptation_sets : b <= a

\* lines 176-178: representation.segments[self._index] raises IndexError
IndexErrorLate(a, r) == index > RepresentationOf(a, r).segments
IndexError(a, r) == index >= RepresentationOf(a, r).segments

\* loop, lines 176-184 for adaptation set a at representation r, with w and
\* c the waiters and completed URLs left by the preceding wait_complete:
\* IndexError ends the loop, otherwise the segment URL is downloaded.
SegmentPart(a, r, w, c) ==
  /\ completed_urls' = c
  /\ IF IndexError(a, r)
       THEN /\ end' = TRUE /\ sched_pc' = "done"
            /\ waiting_urls' = w
            /\ UNCHANGED <<urls, loop_as, content, event_queue, download_queue, streams, life>>
       ELSE LET u == SegmentUrl(a, r, index) IN
            /\ urls' = Append(urls, u)
            /\ Download(u, w)
            /\ IF a = LastAdaptationSet
                 THEN sched_pc' = "results" /\ UNCHANGED loop_as
                 ELSE sched_pc' = "for" /\ loop_as' = a + 1
            /\ UNCHANGED end

\* line 166: representation_str in self._representation_initialized
InitializedNever(a, r) == FALSE
Initialized(a, r) == <<a, r>> \in representation_initialized

\* an exception ends the loop task
SchedCrash ==
  /\ sched_pc' = "crashed"
  /\ UNCHANGED <<end, urls, loop_as, content, event_queue, download_queue, streams, life>>

\* loop, lines 162-184: the body of the for loop for adaptation set loop_as,
\* up to the wait for its initialization segment
for_body ==
  /\ Yielded
  /\ sched_pc = "for" /\ Len(event_queue) < MaxQueue
  /\ LET a == loop_as
         r == current_selections[a]
         u == InitUrl(a, r)
     IN
     IF r \notin RepresentationIds(a)
       THEN SchedCrash /\ UNCHANGED <<waiting_urls, completed_urls>>
       ELSE IF Initialized(a, r)
         THEN SegmentPart(a, r, waiting_urls, completed_urls)
         ELSE /\ Download(u, waiting_urls)
              /\ sched_pc' = CASE WaitCall(u, "open") = "block" -> "init_wait"
                               [] WaitCall(u, "open") = "raise" -> "crashed"
                               [] OTHER -> "init_returned"
              /\ UNCHANGED <<end, urls, loop_as, completed_urls>>
  /\ UNCHANGED <<adaptation_sets, index, dropped_index, representation_initialized,
                 current_selections, qual_list, results, min_bitrate_representations>>
  /\ UNCHANGED <<mpd_vars, protocol, downloading_task, tasks, partially_accepted_urls, cancelled_urls,
                 headers>>
  /\ UNCHANGED <<bw, gov_buffer_level, state, current_segment, pending_segment, timeout,
                 max_timeout, dropped_urls, dropped_indices, gov_pc>>
  /\ UNCHANGED <<env_vars, next_id, calls, sched_events, drops_used, last_rule>>

\* loop, lines 168-184: wait_complete(representation.initialization)
\* returns, the representation is marked, the segment URL is downloaded
init_complete ==
  /\ Yielded
  /\ Len(event_queue) < MaxQueue
  /\ LET a == loop_as
         r == current_selections[a]
         u == InitUrl(a, r)
         woken == sched_pc = "init_wait"
         res == IF woken THEN WaitWake(u) ELSE WaitCall(u, streams[u])
     IN
     /\ \/ woken /\ Woken(u)
        \/ sched_pc = "init_returned"
     /\ cancelled_urls' = IF woken THEN Uncancelled(u, res) ELSE cancelled_urls
     /\ IF res = "raise"
          THEN /\ SchedCrash
               /\ waiting_urls' = Unwaited(u)
               /\ UNCHANGED <<completed_urls, representation_initialized>>
          ELSE /\ representation_initialized' = representation_initialized \cup {<<a, r>>}
               /\ SegmentPart(a, r,
                              IF woken THEN Unwaited(u) ELSE waiting_urls,
                              IF u \notin partially_accepted_urls
                                THEN Uncompleted(u, res) ELSE completed_urls)
  /\ UNCHANGED <<adaptation_sets, index, dropped_index, current_selections, qual_list, results,
                 min_bitrate_representations>>
  /\ UNCHANGED <<mpd_vars, protocol, downloading_task, tasks, partially_accepted_urls, headers>>
  /\ UNCHANGED <<bw, gov_buffer_level, state, current_segment, pending_segment, timeout,
                 max_timeout, dropped_urls, dropped_indices, gov_pc>>
  /\ UNCHANGED <<env_vars, next_id, calls, sched_events, drops_used, last_rule>>

\* loop, line 185: the next wait_complete(url) of the list is called
wait_call ==
  /\ Yielded
  /\ sched_pc = "results" /\ Len(results) < Len(urls)
  /\ LET u == urls[Len(results) + 1]
         res == WaitCall(u, streams[u])
     IN
     /\ sched_pc' = CASE res = "block" -> "wait_seg" [] res = "raise" -> "crashed"
                      [] OTHER -> "results"
     /\ waiting_urls' = IF res = "block" /\ protocol = "tcp"
                          THEN [waiting_urls EXCEPT ![u] = "unset"] ELSE waiting_urls
     /\ results' = IF res \in {"data", "none"} THEN Append(results, res) ELSE results
     /\ completed_urls' = IF u \notin partially_accepted_urls
                            THEN Uncompleted(u, res) ELSE completed_urls
  /\ UNCHANGED <<adaptation_sets, index, dropped_index, end, representation_initialized,
                 current_selections, qual_list, urls, loop_as, min_bitrate_representations>>
  /\ UNCHANGED <<mpd_vars, protocol, download_queue, downloading_task, tasks, partially_accepted_urls,
                 cancelled_urls, headers, content, streams>>
  /\ UNCHANGED <<gov_vars, env_vars, obs_vars>>

\* loop, line 185: the blocked wait_complete(url) returns
wait_wake ==
  /\ Yielded
  /\ sched_pc = "wait_seg"
  /\ LET u == urls[Len(results) + 1]
         res == WaitWake(u)
     IN
     /\ Woken(u)
     /\ waiting_urls' = Unwaited(u)
     /\ sched_pc' = IF res = "raise" THEN "crashed" ELSE "results"
     /\ results' = IF res = "raise" THEN results ELSE Append(results, res)
     /\ cancelled_urls' = Uncancelled(u, res)
     /\ completed_urls' = Uncompleted(u, res)
  /\ UNCHANGED <<adaptation_sets, index, dropped_index, end, representation_initialized,
                 current_selections, qual_list, urls, loop_as, min_bitrate_representations>>
  /\ UNCHANGED <<mpd_vars, protocol, download_queue, downloading_task, tasks, partially_accepted_urls,
                 headers, content, streams>>
  /\ UNCHANGED <<gov_vars, env_vars, obs_vars>>

\* line 188: self._dropped_index = self._index
DroppedIndexKept == dropped_index
DroppedIndexAfterNone == index

\* loop, lines 186-189: a result is None, the index is replayed
loop_dropped ==
  /\ Yielded
  /\ sched_pc = "results" /\ Len(results) = Len(urls)
  /\ \E k \in 1 .. Len(results) : results[k] = "none"
  /\ dropped_index' = DroppedIndexAfterNone
  /\ sched_pc' = "loop"
  /\ sched_events' = Append(sched_events, SchedEvent("dropped", index, current_selections, FALSE))
  /\ UNCHANGED <<adaptation_sets, index, end, representation_initialized, current_selections,
                 qual_list, urls, loop_as, results, min_bitrate_representations>>
  /\ UNCHANGED <<gov_vars, dm_vars, mpd_vars, env_vars, next_id, calls, drops_used, last_rule, life>>

\* line 192: self._index += 1
IndexSkipped == index + 2
IndexAfterComplete == index + 1

\* line 193: self.buffer_manager.enqueue_buffer(duration)
EnqueuedTwice(duration) == buffer_level + 2 * duration
Enqueued(duration) == buffer_level + duration

\* loop, lines 190-193: the segment is acknowledged
loop_complete ==
  /\ Yielded
  /\ sched_pc = "results" /\ Len(results) = Len(urls)
  /\ \A k \in 1 .. Len(results) : results[k] # "none"
  /\ Len(event_queue) < MaxQueue
  /\ event_queue' = Append(event_queue, SegmentDownloadCompleteEvent(index))
  /\ sched_events' = Append(sched_events, SchedEvent("complete", index, current_selections, FALSE))
  /\ index' = IndexAfterComplete
  /\ buffer_level' = Enqueued(SegmentDuration)
  /\ sched_pc' = "loop"
  /\ UNCHANGED <<adaptation_sets, dropped_index, end, representation_initialized,
                 current_selections, qual_list, urls, loop_as, results,
                 min_bitrate_representations>>
  /\ UNCHANGED <<bw, gov_buffer_level, state, current_segment, pending_segment, timeout,
                 max_timeout, dropped_urls, dropped_indices, gov_pc>>
  /\ UNCHANGED <<dm_vars, mpd_vars, now, player_level, player_state, meter_bw, next_id, calls,
                 drops_used, last_rule, life>>

\* cancel_task, lines 231-236: the guard of the two early returns
CancelGuard(i) == index = i /\ current_selections # NoSelections /\ i # 0

\* lines 238-243: the segment URLs of _current_selections, in its order
CancelUrls ==
  [k \in 1 .. Cardinality(DOMAIN current_selections) |->
     SegmentUrl(k - 1, current_selections[k - 1], index)]
\* the lookup .representations[selection].segments[self._index] succeeds
CancelLookup(k) ==
  /\ current_selections[k - 1] \in RepresentationIds(k - 1)
  /\ ~IndexError(k - 1, current_selections[k - 1])
\* the calls of download_manager.stop the for loop makes: it ends with the
\* first lookup or the first stop that raises
CancelCalled ==
  {k \in DOMAIN CancelUrls :
     /\ \A j \in 1 .. k : CancelLookup(j)
     /\ \A j \in 1 .. k - 1 : ~Stop(CancelUrls[j]).raised}
CancelStopped == {k \in CancelCalled : ~Stop(CancelUrls[k]).raised}

RECURSIVE CancelEmitted(_)
CancelEmitted(k) ==
  IF k = 0 THEN <<>>
  ELSE CancelEmitted(k - 1) \o (IF k \in CancelStopped THEN Stop(CancelUrls[k]).emitted ELSE <<>>)

\* cancel_task(index), lines 220-245, a public operation of the scheduler
\* that nothing in the repository calls; the model lets a caller invoke it
\* at any time with any index.  The stops change disjoint parts of the
\* download manager, so their effects are merged.
cancel_task(i) ==
  /\ Yielded
  /\ Cardinality({k \in 1 .. Len(calls) : calls[k].op = "cancel_task"}) < MaxCancels
  /\ IF ~CancelGuard(i)
       THEN /\ calls' = Append(calls, Call("cancel_task", None, -1, i, "ignored"))
            /\ UNCHANGED <<tasks, partially_accepted_urls, waiting_urls, streams, event_queue, life>>
       ELSE LET called == {CancelUrls[k] : k \in CancelCalled}
                stopped == {CancelUrls[k] : k \in CancelStopped}
                n == Len(CancelUrls)
            IN
            /\ tasks' = [v \in Urls |->
                           IF \E u \in called : Stop(u).tasks[v] # tasks[v]
                             THEN TaskCancelled(tasks[v]) ELSE tasks[v]]
            /\ partially_accepted_urls' =
                 partially_accepted_urls \cup
                   {v \in Urls : \E u \in called : v \in Stop(u).partially_accepted_urls}
            /\ waiting_urls' = [v \in Urls |->
                                  IF v \in stopped THEN Stop(v).waiting_urls[v] ELSE waiting_urls[v]]
            /\ streams' = [v \in Urls |->
                             IF v \in stopped THEN Stop(v).streams[v] ELSE streams[v]]
            /\ event_queue' = event_queue \o CancelEmitted(n)
            /\ life' = [v \in Urls |->
                          IF v \in stopped THEN [life[v] EXCEPT !.stopped = TRUE] ELSE life[v]]
            /\ calls' = calls
                 \o <<Call("cancel_task", None, -1, i,
                           IF CancelStopped = DOMAIN CancelUrls THEN "stopped" ELSE "raised")>>
                 \o [k \in 1 .. Cardinality(CancelCalled) |->
                       Call("stop", CancelUrls[k], -1, i, "cancel_task")]
  /\ UNCHANGED <<bw, gov_buffer_level, state, current_segment, pending_segment, timeout,
                 max_timeout, dropped_urls, dropped_indices, gov_pc>>
  /\ UNCHANGED <<mpd_vars, protocol, download_queue, downloading_task, completed_urls, cancelled_urls,
                 headers, content>>
  /\ UNCHANGED <<sched_vars, env_vars, next_id, sched_events, drops_used, last_rule>>

\* ------------------------------------------------------------------ Next
Governor ==
  \/ process_buffer_level_change \/ process_other
  \/ segment_download_start \/ transfer_start \/ bytes_transferred

Scheduler ==
  \/ loop_select \/ for_body \/ init_complete \/ wait_call \/ wait_wake \/ loop_complete

Tcp ==
  \/ download_task
  \/ \E u \in Urls : download_inner_get(u)
  \/ \E u \in Urls : download_inner_chunk(u)
  \/ \E u \in Urls : download_inner_end(u)

Quic ==
  \/ read_new_request
  \/ \E u \in Urls : download_loop_data(u)
  \/ \E u \in Urls : download_loop_end(u)

\* one video adaptation set over HTTP/1.1, with the player, the bandwidth
\* meter and the clock acting at any time
Next ==
  \/ Governor \/ process_bandwidth_update \/ process_state_change
  \/ on_buffer_level_change \/ on_state_change \/ on_bandwidth_update \/ Tick
  \/ Tcp \/ Scheduler \/ loop_sleep \/ loop_wake

Spec == Init /\ [][Next]_vars

\* video and audio over HTTP/1.1
NextVA ==
  \/ Governor \/ on_buffer_level_change
  \/ Tcp \/ Scheduler \/ loop_sleep \/ loop_wake

SpecVA == InitWith(VideoAudio, "tcp") /\ [][NextVA]_vars

\* video and audio over HTTP/1.1 while the wall clock advances
NextVAClock ==
  \/ Governor \/ buffer_level_change(DrainedLevels) \/ Tick
  \/ Tcp \/ Scheduler \/ loop_sleep \/ loop_wake

SpecVAClock == InitWith(VideoAudio, "tcp") /\ [][NextVAClock]_vars

\* two representations over HTTP/3, with a caller of drop_and_replace
NextDrop ==
  \/ Governor \/ drop_and_replace \/ on_buffer_level_change
  \/ Quic \/ Scheduler \/ loop_dropped \/ loop_sleep \/ loop_wake

SpecDrop == InitWith(VideoTwoReps, "quic") /\ [][NextDrop]_vars

\* one video adaptation set over HTTP/1.1, with a caller of drop_and_replace
NextTcpDrop ==
  \/ Governor \/ drop_and_replace \/ on_buffer_level_change
  \/ Tcp \/ Scheduler \/ loop_sleep \/ loop_wake

SpecTcpDrop == InitWith(VideoOnly, "tcp") /\ [][NextTcpDrop]_vars

\* one video adaptation set over HTTP/1.1 on a connection that may fail
NextTcpErr ==
  \/ Governor \/ on_buffer_level_change
  \/ Tcp \/ (\E u \in Urls : connection_error(u))
  \/ Scheduler \/ loop_sleep \/ loop_wake

SpecTcpErr == InitWith(VideoOnly, "tcp") /\ [][NextTcpErr]_vars

\* video in two representations and audio over HTTP/3, with a caller of
\* drop_and_replace and a player that has not started to play
NextDropVA ==
  \/ process_other \/ segment_download_start \/ transfer_start \/ bytes_transferred
  \/ drop_and_replace
  \/ Quic \/ Scheduler \/ loop_dropped \/ loop_sleep \/ loop_wake

SpecDropVA == InitWith(VideoTwoRepsAudio, "quic") /\ [][NextDropVA]_vars

\* the longer manifest over HTTP/3, with a caller of drop_and_replace
NextLong ==
  \/ Governor \/ drop_and_replace \/ buffer_level_change(DrainedLevels)
  \/ Quic \/ Scheduler \/ loop_dropped \/ loop_sleep \/ loop_wake

SpecLong == InitWith(VideoLadder, "quic") /\ [][NextLong]_vars

\* an undisturbed run over HTTP/3: nobody calls drop_and_replace
NextHealthy ==
  \/ Governor \/ on_buffer_level_change
  \/ Quic \/ Scheduler \/ loop_sleep \/ loop_wake

SpecHealthy == InitWith(VideoHealthy, "quic") /\ [][NextHealthy]_vars

\* video and audio over HTTP/3, with a caller of cancel_task and a player
\* that has not started to play
NextCancel ==
  \/ process_other \/ segment_download_start \/ transfer_start \/ bytes_transferred
  \/ (\E i \in 0 .. NumSegments : cancel_task(i))
  \/ Quic \/ Scheduler \/ loop_sleep \/ loop_wake

SpecCancel == InitWith(VideoAudio, "quic") /\ [][NextCancel]_vars

\* video and audio over HTTP/1.1 under the scheduling of the event loop: a
\* task that is ready to run is run, and the server keeps delivering the
\* bytes of every response that is being read.
Fairness ==
  /\ WF_vars(Governor) /\ WF_vars(Scheduler) /\ WF_vars(loop_wake)
  /\ WF_vars(download_task)
  /\ \A u \in Urls : /\ WF_vars(download_inner_get(u))
                     /\ WF_vars(download_inner_chunk(u))
                     /\ WF_vars(download_inner_end(u))

FairSpecVA == SpecVA /\ Fairness

\* ================================================================ claims
\* C1: the governor issues at most one stop or drop per segment, that is per
\* SegmentRequest created by a SegmentDownloadStart: once a stop has been
\* issued for a segment, no later BytesTransferred event of any URL of that
\* segment causes a second stop or a drop for it.
C1_AtMostOneStopPerSegment ==
  \A i, j \in DOMAIN calls :
    (/\ i < j
     /\ calls[i].op \in {"stop", "drop_url"}
     /\ calls[j].op \in {"stop", "drop_url"} /\ calls[j].by # None
     /\ calls[i].seg = calls[j].seg) => FALSE

\* C2: a BytesTransferred event processed while the recorded buffer level is
\* above safe_buffer_level causes neither a stop nor a drop_url, whatever the
\* URL, the ratio, the player state and the timeouts: no call is made, no
\* task is cancelled, no waiter is set and no TransferEnd is emitted.
C2_HealthyIdle ==
  [][(bytes_transferred /\ gov_buffer_level > SafeBufferLevel) =>
       /\ \A k \in DOMAIN calls' :
            k > Len(calls) => calls'[k].op \notin {"stop", "drop_url"}
       /\ UNCHANGED <<tasks, partially_accepted_urls, waiting_urls, streams>>
       /\ event_queue' = Tail(event_queue)
       /\ gov_pc' # "crashed"]_vars

\* the governor has let an event pass as healthy although the segment had
\* seen its first bytes, its timeout had elapsed and the player was buffering
C2_Witness ==
  /\ last_rule = "healthy" /\ gov_buffer_level > SafeBufferLevel
  /\ current_segment # None /\ current_segment.index # 0
  /\ current_segment.first_bytes_received
  /\ now >= timeout /\ state = "BUFFERING"
  /\ \A k \in DOMAIN calls : calls[k].op # "stop"

\* C3: after a stop by the panic rule, further BytesTransferred events of
\* the URL whose event caused that stop produce no additional stop.
C3_PanicStopsOnce ==
  \A i, j \in DOMAIN calls :
    (/\ i < j
     /\ calls[i].op = "stop" /\ calls[i].rule = "panic"
     /\ calls[j].op = "stop") => calls[j].by # calls[i].by

\* C4: once the timeout has elapsed and the buffer is between panic and safe
\* (the only way to the VQ rule), the events of a URL whose ratio exceeds
\* the VQ threshold make the governor stop exactly once: after a stop by the
\* VQ rule no further stop is caused by the events of that URL.
C4_VQStopsOnce ==
  \A i, j \in DOMAIN calls :
    (/\ i < j
     /\ calls[i].op = "stop" /\ calls[i].rule = "vq"
     /\ calls[j].op = "stop") => calls[j].by # calls[i].by

\* C5: a BytesTransferred event of a segment past its first bytes, to which
\* neither the stall rule nor the panic rule applies and which is processed
\* before the timeout, makes the governor issue no call and change none of
\* its fields.
C5_PreTimeoutIdle ==
  [][(/\ bytes_transferred
      /\ current_segment # None /\ current_segment.first_bytes_received
      /\ LET ev == Head(event_queue) IN
           /\ ~(/\ current_segment.index # 0 /\ ev.url = current_segment.url
                /\ state = "BUFFERING" /\ ev.position * 10 > ev.size)
           /\ ~(ev.position * 10 > ev.size /\ gov_buffer_level < PanicBufferLevel)
      /\ now < timeout)
     => /\ UNCHANGED <<bw, gov_buffer_level, state, current_segment, pending_segment,
                       timeout, max_timeout, dropped_urls, dropped_indices>>
        /\ UNCHANGED <<calls, tasks, partially_accepted_urls, waiting_urls, streams>>]_vars

\* C6: the first BytesTransferred event of a segment that reaches the
\* decision ladder sets first_bytes_received, timeout = now + t and
\* max_timeout = now + 2t with t = (size - length) * 8 / bw, or t = 10 when
\* bw = 0; it causes no stop and no failure, whatever the buffer level and
\* the player state, also when size = length (t = 0).
C6_FirstByte ==
  [][(/\ bytes_transferred
      /\ LET ev == Head(event_queue) IN
           /\ pending_segment = None \/ pending_segment.url # ev.url
           /\ gov_buffer_level <= SafeBufferLevel
           /\ ev.url \notin dropped_urls
      /\ current_segment # None
      /\ current_segment.index \notin dropped_indices
      /\ ~current_segment.first_bytes_received)
     => LET ev == Head(event_queue)
            t == IF bw = 0 THEN 10 ELSE ((ev.size - ev.length) * 8) \div bw
        IN /\ current_segment'.first_bytes_received
           /\ timeout' = now + t /\ max_timeout' = now + 2 * t
           /\ \A k \in DOMAIN calls' : k > Len(calls) => calls'[k].op # "stop"
           /\ UNCHANGED <<tasks, partially_accepted_urls, waiting_urls, streams>>
           /\ event_queue' = Tail(event_queue)
           /\ gov_pc' # "crashed"]_vars

\* a zero-duration timeout was installed by a whole response arriving in one
\* event, with a bandwidth estimate, the player buffering and the buffer
\* under the panic level, and nothing was stopped
C6_Witness ==
  /\ last_rule = "first_bytes" /\ calls = <<>>
  /\ current_segment # None /\ current_segment.first_bytes_received
  /\ bw # 0 /\ timeout = now /\ max_timeout = now
  /\ state = "BUFFERING" /\ gov_buffer_level < PanicBufferLevel

\* C7: once the pending segment A has been cleaned up by cancel_read, the
\* governor issues no further stop on A.
C7_NoStopAfterCleanup ==
  \A i, j \in DOMAIN calls :
    (/\ i < j
     /\ calls[i].op = "cancel_read" /\ calls[i].rule = "reconcile"
     /\ calls[j].op = "stop")
    => ~(calls[j].url = calls[i].url /\ calls[j].seg = calls[i].seg)

\* C8: _index is the number of SegmentDownloadComplete events emitted so far
\* (so it starts at 0, never decreases and moves by one with each of them and
\* at no other time), and the k-th of them carries index k - 1, also when
\* iterations were dropped and replayed in between.
C8_IndexCountsCompletes ==
  LET IsComplete(e) == e.type = "complete"
      completes == SelectSeq(sched_events, IsComplete)
  IN /\ index = Len(completes)
     /\ \A k \in DOMAIN completes : completes[k].index = k - 1

\* every segment was acknowledged although an attempt had been dropped
C8_Witness ==
  /\ index = NumSegments
  /\ \E k \in DOMAIN sched_events : sched_events[k].type = "dropped"

C10_DropReplay ==
  [][/\ (/\ sched_pc = "results" /\ Len(results) = Len(urls)
         /\ \E k \in DOMAIN results : results[k] = "none"
         /\ sched_pc' # sched_pc)
        => /\ index' = index /\ buffer_level' = buffer_level
           /\ dropped_index' = index
           /\ event_queue' = event_queue
           /\ \A k \in DOMAIN sched_events' :
                k > Len(sched_events) => sched_events'[k].type # "complete"
           /\ sched_pc' = "loop"
     /\ (/\ sched_events # <<>>
         /\ sched_events[Len(sched_events)].type = "dropped"
         /\ sched_events' # sched_events)
        => /\ sched_events'[Len(sched_events')].type = "start"
           /\ sched_events'[Len(sched_events')].index = sched_events[Len(sched_events)].index
           /\ sched_events'[Len(sched_events')].index = index
           /\ sched_events'[Len(sched_events')].lowest
           /\ \A a \in DOMAIN adaptation_sets : \A k \in DOMAIN adaptation_sets[a] :
                Len(qual_list) <= NumPreviousSamples =>
                  RepresentationOf(a, current_selections'[a]).bandwidth
                    <= adaptation_sets[a][k].bandwidth]_vars

\* a dropped iteration was replayed with the lowest representation
C10_Witness ==
  /\ dropped_index = index
  /\ \E k \in DOMAIN sched_events :
       /\ k < Len(sched_events) /\ sched_events[k].type = "dropped"
       /\ sched_events[k + 1].type = "start" /\ sched_events[k + 1].lowest
       /\ sched_events[k + 1].selections = (0 :> 1)

\* C11: in a drop-and-replace flow the listeners see two
\* SegmentDownloadStart(i) events for the dropped index i, and the selection
\* of the second one, which is the one then downloaded, is the
\* minimum-bandwidth representation of each adaptation set.
C11_ReplayLowest ==
  LET Cheapest(a, r) ==
        /\ r \in RepresentationIds(a)
        /\ \A k \in DOMAIN adaptation_sets[a] :
             RepresentationOf(a, r).bandwidth <= adaptation_sets[a][k].bandwidth
  IN \A k \in DOMAIN sched_events :
       (k > 1 /\ sched_events[k - 1].type = "dropped") =>
         /\ sched_events[k].type = "start"
         /\ sched_events[k].index = sched_events[k - 1].index
         /\ \E j \in 1 .. k - 2 :
              sched_events[j].type = "start" /\ sched_events[j].index = sched_events[k].index
         /\ \A a \in DOMAIN adaptation_sets : Cheapest(a, sched_events[k].selections[a])
         /\ k = Len(sched_events) =>
              \A n \in DOMAIN urls :
                /\ urls[n].idx = sched_events[k].index
                /\ Cheapest(urls[n].as, urls[n].rep)

\* C12: drop_and_replace adds current_segment.url to dropped_urls and
\* current_segment.index to dropped_indices and then invokes drop_url and
\* cancel_read on that URL; a wait_complete of the scheduler for a URL that
\* was dropped while its download was under way returns None.
C12_DropYieldsNone ==
  [][/\ drops_used' # drops_used =>
          /\ dropped_urls' = dropped_urls \cup {current_segment.url}
          /\ dropped_indices' = dropped_indices \cup {current_segment.index}
          /\ Len(calls') = Len(calls) + 2
          /\ calls'[Len(calls) + 1].op = "drop_url"
          /\ calls'[Len(calls) + 1].url = current_segment.url
          /\ calls'[Len(calls) + 2].op = "cancel_read"
          /\ calls'[Len(calls) + 2].url = current_segment.url
     /\ (/\ sched_pc \in {"results", "wait_seg"} /\ Len(results) < Len(urls)
         /\ life[urls[Len(results) + 1]].dropped
         /\ results' # results \/ sched_pc' = "crashed")
        => results' = Append(results, "none")]_vars

\* C13: a wait_complete(url) of the scheduler returns only once the URL is in
\* a terminal state, and it returns then: None when the URL was dropped
\* through drop_url, (bytes, size) when it completed or was stopped.
C13_WaitResult ==
  [][(/\ sched_pc \in {"results", "wait_seg"} /\ Len(results) < Len(urls)
      /\ results' # results \/ sched_pc' = "crashed")
     => LET u == urls[Len(results) + 1] IN
        /\ Settled(u)
        /\ results' = Append(results, IF life[u].dropped THEN "none" ELSE "data")]_vars

\* C14: once stop(url) or drop_url(url) has returned, the download manager
\* emits no further on_bytes_transferred event for that URL.
C14_NoBytesAfterStop ==
  [][\A u \in Urls :
       life[u].stopped =>
         ~(/\ event_queue' # <<>>
           /\ event_queue' = Append(event_queue, event_queue'[Len(event_queue')])
           /\ event_queue'[Len(event_queue')].type = "BytesTransferred"
           /\ event_queue'[Len(event_queue')].url = u)]_vars

C16_EventOrder ==
  [][LET q == event_queue
         e == event_queue'[Len(event_queue')]
         emitted == /\ event_queue' # <<>>
                    /\ \/ event_queue' = Append(q, e)
                       \/ /\ q # <<>> /\ calls' # calls /\ drops_used' = drops_used
                          /\ event_queue' = Append(Tail(q), e)
         HadEnd(u) == IF protocol = "tcp" THEN tasks[u].st = "done" \/ life[u].stopped
                      ELSE streams[u] \in {"completed", "stopped"}
     IN /\ (emitted /\ e.type = "TransferEnd") => ~HadEnd(e.url)
        /\ (emitted /\ e.type = "BytesTransferred") =>
             /\ content[e.url] >= 0 /\ ~HadEnd(e.url)
             /\ e.position > content[e.url] /\ e.size = SizeOf(e.url)]_vars

\* C17: a call of stop(url), or of drop_url(url), for a URL for which such a
\* call has already returned, or which is already in a terminal state,
\* cancels nothing, emits no event, does not fail and leaves the state of
\* the download manager as it was.
C17_StopIdempotent ==
  [][\A k \in DOMAIN calls' :
       (/\ k > Len(calls) /\ calls'[k].op \in {"stop", "drop_url"}
        /\ calls'[k].url # None
        /\ life[calls'[k].url].stopped \/ Settled(calls'[k].url))
       => /\ UNCHANGED dm_vars
          /\ event_queue' = IF calls'[k].op = "stop" THEN Tail(event_queue) ELSE event_queue
          /\ gov_pc' # "crashed"
          /\ calls'[k].op = "drop_url" => Len(calls') = Len(calls) + 2]_vars

\* The terminal outcomes a URL is recorded under: Completed (its response was
\* read to the end), Stopped (partially accepted), Dropped.
Outcomes(u) ==
  IF protocol = "tcp"
  THEN {o \in {"completed", "stopped", "dropped"} :
          \/ o = "completed" /\ (tasks[u].st = "done" \/ u \in completed_urls)
          \/ o = "stopped" /\ u \in partially_accepted_urls
          \/ o = "dropped" /\ u \in cancelled_urls}
  ELSE {streams[u]} \cap {"completed", "stopped", "dropped"}

\* C18: terminal states are absorbing.  Once a URL is recorded as Completed,
\* Stopped or Dropped, no step other than a new download of that URL changes
\* its outcome; no URL is ever recorded under two outcomes at once; and a URL
\* becomes Dropped only in a step in which drop_url is called for it.
C18_TerminalAbsorbing ==
  [][\A u \in Urls :
       LET restarted == /\ event_queue' # <<>>
                        /\ event_queue' = Append(event_queue, TransferStartEvent(u))
       IN
       /\ Cardinality(Outcomes(u)') <= 1
       /\ (Outcomes(u) # {} /\ ~restarted) => Outcomes(u)' = Outcomes(u)
       /\ ("dropped" \in Outcomes(u)' \ Outcomes(u)) =>
            \E k \in Len(calls) + 1 .. Len(calls') :
              calls'[k].op = "drop_url" /\ calls'[k].url = u]_vars

\* the scheduler loop is suspended in wait_complete(url)
Blocked == sched_pc \in {"init_wait", "wait_seg"}

C20_GovernorNeverRaises == gov_pc # "crashed"

\* C21: a connection-level error during the download of a URL is surfaced
\* as a terminal on_transfer_canceled(url, position, size) event, and the
\* waiter of the URL is resolved and not left blocked.
C21_ErrorCancels ==
  [][\A u \in Urls :
       (tasks'[u].st = "error" /\ tasks[u].st # "error") =>
         /\ event_queue' = Append(event_queue, TransferCancelEvent(u, content[u], SizeOf(u)))
         /\ waiting_urls'[u] # "unset"]_vars

\* the _download_inner tasks that have been created and have not ended
RunningTasks == {u \in Urls : tasks[u].st \in {"created", "streaming"}}

\* C22: the HTTP/1.1 download manager serialises the URLs on its session.
\* At most one _download_inner task is in progress at any time, so the GET
\* of a queued URL starts only after the task before it has ended.
C22_OneGetAtATime == protocol = "tcp" => Cardinality(RunningTasks) <= 1

\* C23: initialization segments are fetched at most once per adaptation set
\* and representation.  Whenever the initialization URL of a representation
\* is requested, that representation is not marked initialized and the URL
\* has never been requested before, also when an index is replayed after a
\* drop.
C23_InitOnce ==
  [][\A u \in Urls :
       (u.kind = "init" /\ download_queue' = Append(download_queue, u)) =>
         /\ <<u.as, u.rep>> \notin representation_initialized
         /\ content[u] = -1]_vars

\* a replayed run in which two segments were requested at one representation
C23_Witness ==
  /\ \E k \in DOMAIN sched_events : sched_events[k].type = "dropped"
  /\ \E r \in {0, 1} :
       /\ <<0, r>> \in representation_initialized
       /\ content[InitUrl(0, r)] >= 0
       /\ content[SegmentUrl(0, r, 0)] >= 0 /\ content[SegmentUrl(0, r, 1)] >= 0

C25_HighWaterSleeps ==
  [][LET idle == UNCHANGED <<index, current_selections, qual_list, urls, sched_events,
                             event_queue, download_queue, content>>
     IN /\ (sched_pc = "loop" /\ buffer_level > MaxBufferDuration /\ sched_pc' # "loop")
             => (sched_pc' = "sleep" /\ idle)
        /\ (sched_pc = "sleep" /\ sched_pc' # "sleep") => (sched_pc' = "loop" /\ idle)]_vars

\* the loop has found the buffer full and sleeps
C25_Witness == sched_pc = "sleep" /\ buffer_level > MaxBufferDuration /\ ~end

\* r is the id of a representation of adaptation set a, and no representation
\* of a has a lower bandwidth
LowestBandwidth(a, r) ==
  /\ r \in RepresentationIds(a)
  /\ \A k \in 1 .. Len(adaptation_sets[a]) :
       RepresentationOf(a, r).bandwidth <= adaptation_sets[a][k].bandwidth

\* C26: whatever calls and manifest updates went before, a call of
\* update_selection with choose_lowest=True returns for every adaptation set
\* the id of a representation of minimal bandwidth among the representations
\* passed to that call.
C26_LowestIsMinimal ==
  [][update_selection_call(TRUE) =>
       \A a \in DOMAIN adaptation_sets : LowestBandwidth(a, current_selections'[a])]_vars

\* C27: the lifecycle of the MPD provider.  start() downloads and parses
\* the manifest once; if its type is dynamic the refresh task is created,
\* otherwise there is no refresh task and the download manager is closed
\* after the parse; after start() only the refresh task downloads the
\* manifest, each time when started or after a sleep of update_interval;
\* stop() cancels the task and always closes the download manager, and
\* nothing is downloaded or parsed after it.
C27_ProviderLifecycle ==
  [][/\ (provider_pc = "update" /\ provider_pc' = "started") =>
          /\ fetches' = 1 /\ mpd' # None
          /\ IF mpd'.type = "dynamic"
               THEN refresh_task' = "created" /\ manifest_dm' = "open"
               ELSE refresh_task' = "none" /\ manifest_dm' = "closing"
     /\ (refresh_task' = "none" /\ provider_pc' \in {"started", "stopped"}) =>
          (mpd'.type = "static" /\ manifest_dm' \in {"closing", "closed"} /\ fetches' = 1)
     /\ (fetches' # fetches /\ provider_pc # "idle") =>
          /\ provider_pc = "started"
          /\ refresh_task \in {"created", "sleep"} /\ refresh_task' = "update"
          /\ fetches' = fetches + 1
     /\ (provider_pc' = "stopped" /\ provider_pc # "stopped") =>
          (manifest_dm' = "closed" /\ refresh_task' \in {"none", "cancelled"})
     /\ provider_pc = "stopped" => UNCHANGED <<mpd, fetches, refresh_task, manifest_dm>>]_vars

\* a dynamic manifest was refreshed by the task and the provider was stopped
C27_Witness ==
  /\ provider_pc = "stopped" /\ refresh_task = "cancelled" /\ manifest_dm = "closed"
  /\ fetches = 1 + MaxRefreshes

\* C28: at most one refresh of the manifest (download, wait_complete and
\* parse of the MPD URL) is in flight at any time.
C28_OneRefreshInFlight == in_flight <= 1

\* the refresh task is in its second update()
C28_Witness == in_flight = 1 /\ refresh_task = "update" /\ fetches > 2

\* the segment URLs of index i, and of adaptation set a at index i, that have
\* been requested and are in no terminal state
InFlightAt(i) ==
  {u \in Urls : u.kind = "seg" /\ u.idx = i /\ content[u] >= 0 /\ ~Settled(u)}
InFlightOf(a, i) == {u \in InFlightAt(i) : u.as = a}
\* the governor has called stop or drop_url since the last SegmentDownloadStart
StopWindow == \E k \in DOMAIN calls : calls[k].op \in {"stop", "drop_url"}

\* C29 as stated: outside the window between a stop and the next
\* SegmentDownloadStart, at most one URL per segment index is in a
\* non-terminal download state.
C29_OneUrlPerIndex ==
  ~StopWindow => \A i \in SegmentIndices : Cardinality(InFlightAt(i)) <= 1

\* C29 amended: outside the window between a stop and the next
\* SegmentDownloadStart, at most one URL per adaptation set and segment
\* index is in a non-terminal download state.
C29_OneUrlPerSetAndIndex ==
  ~StopWindow =>
    \A a \in DOMAIN adaptation_sets, i \in SegmentIndices : Cardinality(InFlightOf(a, i)) <= 1

\* after a drop the index is fetched again at the other video representation,
\* with the audio segment of the index in flight next to it
C29_Witness ==
  /\ ~StopWindow
  /\ \E i \in SegmentIndices :
       /\ streams[SegmentUrl(0, 0, i)] = "dropped"
       /\ InFlightOf(0, i) = {SegmentUrl(0, 1, i)}
       /\ InFlightOf(1, i) = {SegmentUrl(1, 0, i)}

\* C30: healthy playback.  While the buffer is above safe_buffer_level the
\* governor calls neither stop nor drop_url, and the selection announced in
\* a SegmentDownloadStart, the quality that is then downloaded, is the
\* selection the ABR selector returned for that iteration, unmodified.
C30_HealthyUnmodified ==
  [][/\ gov_buffer_level > SafeBufferLevel =>
          \A k \in Len(calls) + 1 .. Len(calls') :
            calls'[k].op \notin {"stop", "drop_url"} \/ calls'[k].rule = "external"
     /\ ( /\ buffer_level > SafeBufferLevel
          /\ \A k \in 1 .. Len(calls) : calls[k].op \notin {"stop", "drop_url"}
          /\ Len(sched_events') = Len(sched_events) + 1 ) =>
          LET e == sched_events'[Len(sched_events')]
          IN e.type = "start" => e.selections = e.abr]_vars

\* --------------------------------------------------- BETAPlaybackAnalyzer
\* AnalyzerSegment(index, start_time, completion_time, quality_selection,
\* bandwidth), without the times
AnalyzerSegment(i, q) == [index |-> i, quality_selection |-> q]

\* the listener call that appends to _segments (analyer.py line 135)
AppendsAtStart(type) == type = "start"
Appends(type) == type = "complete"

\* the analyzer after the first n events of the scheduler: the loop awaits
\* on_segment_download_start and on_segment_download_complete in line, and
\* calls no listener when it replays a dropped index
RECURSIVE Analyzer(_)
Analyzer(n) ==
  IF n = 0 THEN [current_segment |-> <<>>, segments |-> <<>>]
  ELSE LET a == Analyzer(n - 1)
           e == sched_events[n]
           cur == IF e.type = "start"
                    THEN <<AnalyzerSegment(e.index, e.selections[0])>>
                    ELSE a.current_segment
       IN [current_segment |-> cur,
           segments |-> IF Appends(e.type) THEN a.segments \o cur ELSE a.segments]

\* C31: the assertion of the analyzer, len(_segments) == index + 1, holds at
\* every SegmentDownloadComplete(index): one AnalyzerSegment per acknowledged
\* index, in index order, and it is the segment of the attempt that was
\* acknowledged, never the one of a dropped attempt.
C31_AnalyzerAssertion ==
  \A n \in 1 .. Len(sched_events) :
    sched_events[n].type = "complete" =>
      LET segs == Analyzer(n).segments IN
      /\ Len(segs) = sched_events[n].index + 1
      /\ \A j \in 1 .. Len(segs) : segs[j].index = j - 1
      /\ \E k \in 1 .. n - 1 :
           /\ sched_events[k].type = "start" /\ sched_events[k].index = sched_events[n].index
           /\ \A d \in k + 1 .. n - 1 : sched_events[d].type \notin {"start", "dropped"}
           /\ segs[Len(segs)] = AnalyzerSegment(sched_events[k].index, sched_events[k].selections[0])

\* a dropped attempt of index 1 was replayed and acknowledged
C31_Witness ==
  /\ \E d \in 1 .. Len(sched_events) :
       sched_events[d].type = "dropped" /\ sched_events[d].index = 1
  /\ \E n \in 1 .. Len(sched_events) :
       sched_events[n].type = "complete" /\ sched_events[n].index = 1
  /\ Len(Analyzer(Len(sched_events)).segments) = 2

\* C32: the stall-recovery rule.  A BytesTransferred event that reaches the
\* ladder (not of the pending URL, buffer at or below safe_buffer_level, not
\* dropped, first bytes already seen) for a segment other than 0, with the
\* URL of the current segment, the player Buffering and ratio > 0.1, makes
\* the governor call stop on the current URL, whatever the timeout and the
\* panic level; for index 0 the rule never fires.
C32_StallRecovery ==
  [][bytes_transferred =>
       LET ev == Head(event_queue) IN
       /\ ( /\ ~SamePending(ev) /\ gov_buffer_level <= SafeBufferLevel
            /\ ev.url \notin dropped_urls
            /\ current_segment # None
            /\ current_segment.index \notin dropped_indices
            /\ current_segment.first_bytes_received
            /\ current_segment.index # 0 /\ ev.url = current_segment.url
            /\ state = "BUFFERING" /\ RatioGT(ev.position, ev.size, MinRefRatio) ) =>
              /\ Len(calls') > Len(calls)
              /\ calls'[Len(calls')].op = "stop"
              /\ calls'[Len(calls')].url = current_segment.url
              /\ calls'[Len(calls')].rule = "stall"
       /\ last_rule' = "stall" => current_segment.index # 0]_vars

\* the rule has fired before the timeout and above the panic level
C32_Witness ==
  /\ last_rule = "stall" /\ now < timeout /\ gov_buffer_level >= PanicBufferLevel
  /\ calls # <<>> /\ calls[Len(calls)].op = "stop"

\* C33: once the timeout has elapsed (now >= timeout), every BytesTransferred
\* event that reaches the ladder (not of the pending URL, buffer at or below
\* safe_buffer_level, not dropped, first bytes already seen) ends in a stop
\* of the current segment, whatever the ratio, the buffer level and
\* max_timeout; and no step of _bytes_transferred calls drop_url or changes
\* dropped_urls or dropped_indices.
C33_TimeoutStops ==
  [][bytes_transferred =>
       LET ev == Head(event_queue) IN
       /\ ( /\ ~SamePending(ev) /\ gov_buffer_level <= SafeBufferLevel
            /\ ev.url \notin dropped_urls
            /\ current_segment # None
            /\ current_segment.index \notin dropped_indices
            /\ current_segment.first_bytes_received
            /\ now >= timeout ) =>
              /\ Len(calls') > Len(calls)
              /\ calls'[Len(calls')].op = "stop"
              /\ calls'[Len(calls')].url = current_segment.url
              /\ calls'[Len(calls')].seg = current_segment.id
       /\ \A k \in Len(calls) + 1 .. Len(calls') : calls'[k].op # "drop_url"
       /\ UNCHANGED <<dropped_urls, dropped_indices>>]_vars

\* a stop made after the timeout with the buffer at or above the panic level
C33_Witness ==
  /\ last_rule = "vq" /\ now >= timeout /\ gov_buffer_level >= PanicBufferLevel
  /\ calls # <<>> /\ calls[Len(calls)].op = "stop" /\ calls[Len(calls)].rule = "vq"

\* C34: the deadlines the ladder compares against for the URL of the current
\* segment were computed from the first BytesTransferred event of that URL.
\* On every step of _bytes_transferred whose event reaches line 154, the
\* deadlines are computed exactly when the event is the first of its URL
\* (position = length), and then the URL is the one of the current segment.
C34_DeadlinesOfFirstEvent ==
  [][bytes_transferred =>
       LET ev == Head(event_queue) IN
       ( /\ ~SamePending(ev) /\ gov_buffer_level <= SafeBufferLevel
         /\ ev.url \notin dropped_urls
         /\ current_segment # None
         /\ current_segment.index \notin dropped_indices ) =>
           /\ current_segment.first_bytes_received = FALSE <=> ev.position = ev.length
           /\ current_segment.first_bytes_received = FALSE => ev.url = current_segment.url]_vars

\* C35: a segment whose download started while the bandwidth estimate of the
\* governor was still 0 is never stopped.  The estimate only changes by a
\* BandwidthUpdate with a non-zero value, so while it is 0 the current
\* segment started with it: no step of _bytes_transferred made with bw = 0
\* calls stop.
C35_NoStopWithoutBandwidth ==
  [][(bytes_transferred /\ bw = 0) =>
       \A k \in Len(calls) + 1 .. Len(calls') : calls'[k].op # "stop"]_vars

\* the step appends an event of the given type to the scheduler's events
Emits(type) ==
  /\ Len(sched_events') = Len(sched_events) + 1
  /\ sched_events'[Len(sched_events')].type = type

\* the buffer is enqueued exactly with the acknowledgement of an index, by
\* the duration of one segment, and by no other step of the scheduler
EnqueuedOnAcknowledgement ==
  /\ Emits("complete") => buffer_level' = buffer_level + SegmentDuration
  /\ buffer_level' > buffer_level => Emits("complete")
  /\ Emits("complete") =>
       /\ sched_events'[Len(sched_events')].index = index /\ index' = index + 1
       /\ \A k \in 1 .. Len(results) : results[k] = "data"
  /\ (\E k \in 1 .. Len(results) : results[k] = "none") => buffer_level' <= buffer_level

\* C36 as stated: the buffer is enqueued exactly once per acknowledged index,
\* with the segment's duration, nothing is enqueued for an attempt with a
\* None result, and exactly one URL per index contributes to the buffer.
C36_OneUrlPerIndex ==
  [][/\ EnqueuedOnAcknowledgement
     /\ Emits("complete") => Len(urls) = 1]_vars

\* C36, amended: as above, and exactly one URL per adaptation set and index
\* contributes to the buffer.
C36_OneUrlPerSetAndIndex ==
  [][/\ EnqueuedOnAcknowledgement
     /\ Emits("complete") =>
          \A a \in DOMAIN adaptation_sets :
            Cardinality({k \in 1 .. Len(urls) : urls[k].as = a /\ urls[k].idx = index}) = 1]_vars

\* index 1 was dropped, replayed and acknowledged, and the buffer holds the
\* two acknowledged segments
C36_Witness ==
  /\ \E d \in 1 .. Len(sched_events) :
       sched_events[d].type = "dropped" /\ sched_events[d].index = 1
  /\ sched_events # <<>> /\ sched_events[Len(sched_events)].type = "complete"
  /\ sched_events[Len(sched_events)].index = 1
  /\ buffer_level = 2 * SegmentDuration

\* C37: cancel_task(index) calls download_manager.stop on the segment URL of
\* every currently selected representation if and only if index equals the
\* scheduler's _index, _current_selections is set and index > 0; in every
\* other case it makes no call of the download manager and changes no state
\* of the scheduler.
C37_CancelTask ==
  [][\A i \in 0 .. NumSegments :
       cancel_task(i) =>
         LET stops == {calls'[k].url : k \in {j \in Len(calls) + 1 .. Len(calls') :
                                                calls'[j].op = "stop"}}
         IN /\ UNCHANGED sched_vars
            /\ IF index = i /\ current_selections # NoSelections /\ i > 0
                 THEN stops = {SegmentUrl(a, current_selections[a], index) :
                                 a \in DOMAIN current_selections}
                 ELSE stops = {} /\ UNCHANGED dm_vars]_vars

\* C38: from the moment _stop_download makes the current segment the pending
\* one until pending_segment is cleared or replaced, pending_segment.url is
\* the URL stop was invoked on: no step changes the URL of the pending
\* SegmentRequest, a TransferStart of another URL included.
C38_PendingUrlKept ==
  [][(/\ pending_segment # None /\ pending_segment' # None
      /\ pending_segment'.id = pending_segment.id) =>
        pending_segment'.url = pending_segment.url]_vars

\* C39: whenever the governor issues stop in response to a BytesTransferred
\* event, the URL passed to download_manager.stop is the URL of that event,
\* so the ratio that justified the stop belongs to the stopped download.
C39_StopsEventUrl ==
  [][bytes_transferred =>
       \A k \in Len(calls) + 1 .. Len(calls') :
         calls'[k].op = "stop" => calls'[k].url = Head(event_queue).url]_vars

\* C40: after the slope logic of the loop, the representation id used for
\* adaptation set 0 is an id of that adaptation set, so the lookup
\* representations.get(selection) never misses.
C40_SelectionPresent ==
  current_selections # NoSelections => current_selections[0] \in RepresentationIds(0)

====
